---- MODULE Spec2Model ----
(***************************************************************************)
(* A model of the Database<T> query layer of exercises 13 and 14           *)
(* (src/exercises/exercise-14/database.ts is the superset: exercise 13 is  *)
(* the same class without sort and projection).                            *)
(*                                                                         *)
(* JavaScript values are modelled as records [t, n, s]: t is the typeof    *)
(* tag, n the number, s the string as a sequence of one-character strings. *)
(* JavaScript objects are functions from their own keys to values; ordered *)
(* mappings that the code iterates (filters, sort and projection options)  *)
(* are sequences of <<key, value>> pairs in insertion order.               *)
(***************************************************************************)
EXTENDS Integers, Sequences, FiniteSets, TLC

VARIABLES
    filename,                  \* this.filename
    fullTextSearchFieldNames,  \* this.fullTextSearchFieldNames
    log,                       \* the lines the external writer has appended to the file
    calls,                     \* the find calls: caller -> [pc, query, options, rawData, outcome]
    args,                      \* arguments of a direct call of one protected method
    ret                        \* <<its return value>>, <<>> before the call

vars == <<filename, fullTextSearchFieldNames, log, calls, args, ret>>

----------------------------------------------------------------------------
(* Bounds of the model                                                     *)

MaxIn == 1        \* longest $in operand
MaxOps == 2       \* most operators in one filter
MaxSub == 2       \* longest $and / $or sequence
MaxText == 3      \* longest string of the full-text cases
MaxLines == 2     \* most lines the writer appends to the log

----------------------------------------------------------------------------
(* JavaScript values                                                       *)

Undefined == [t |-> "undefined", n |-> 0, s |-> <<>>]
Num(n) == [t |-> "number", n |-> n, s |-> <<>>]
Str(s) == [t |-> "string", n |-> 0, s |-> s]

EmptyObject == [k \in {} |-> Undefined]

\* entry[field]: undefined when the object has no such own key
Get(entry, field) == IF field \in DOMAIN entry THEN entry[field] ELSE Undefined

\* ToBoolean: 0, "" and undefined are falsy
Truthy(v) ==
    CASE v.t = "number" -> v.n # 0
      [] v.t = "string" -> v.s # <<>>
      [] OTHER -> FALSE

\* UTF-16 code units of the characters the model uses
CharCode(c) ==
    CASE c = " " -> 32
      [] c = "." -> 46
      [] c = "A" -> 65
      [] c = "a" -> 97
      [] c = "b" -> 98
      [] c = "c" -> 99

IsWhiteSpace(c) == c = " "

RECURSIVE StrLess(_, _)
\* string < string: lexicographic on code units
StrLess(x, y) ==
    IF y = <<>> THEN FALSE
    ELSE IF x = <<>> THEN TRUE
    ELSE IF CharCode(x[1]) < CharCode(y[1]) THEN TRUE
    ELSE IF CharCode(x[1]) > CharCode(y[1]) THEN FALSE
    ELSE StrLess(Tail(x), Tail(y))

\* ToNumber: no character of the model is a digit, so a string is 0 when it is
\* empty or all white space and NaN otherwise; undefined is NaN
ToNumber(v) ==
    CASE v.t = "number" -> [nan |-> FALSE, n |-> v.n]
      [] v.t = "string" ->
            IF \A i \in 1..Len(v.s) : IsWhiteSpace(v.s[i])
            THEN [nan |-> FALSE, n |-> 0]
            ELSE [nan |-> TRUE, n |-> 0]
      [] OTHER -> [nan |-> TRUE, n |-> 0]

\* a < b (abstract relational comparison); any NaN makes it false
JsLess(a, b) ==
    IF a.t = "string" /\ b.t = "string" THEN StrLess(a.s, b.s)
    ELSE LET x == ToNumber(a)
             y == ToNumber(b)
         IN  ~x.nan /\ ~y.nan /\ x.n < y.n

\* a > b
JsGreater(a, b) == JsLess(b, a)

\* a === b: the representation is canonical, so it is equality of values
StrictEq(a, b) == a = b

\* Array.prototype.includes
Includes(items, v) == \E k \in 1..Len(items) : StrictEq(items[k], v)

----------------------------------------------------------------------------
(* Objects whose keys the code tests or iterates: <<key, value>> pairs     *)

HasOwnProperty(object, key) == \E i \in 1..Len(object) : object[i][1] = key

\* object[key] of an own key
Prop(object, key) ==
    object[CHOOSE i \in 1..Len(object) : object[i][1] = key][2]

\* Object.keys
ObjectKeys(object) == [i \in 1..Len(object) |-> object[i][1]]

----------------------------------------------------------------------------
(* Filters                                                                 *)

\* an optional property holding an array: has = the property is there
NoArray == [has |-> FALSE, items |-> <<>>]
Array(items) == [has |-> TRUE, items |-> items]

\* one field's condition {$eq?, $gt?, $lt?, $in?}; an absent operand reads as
\* undefined
Cond(eq, lt, gt, in) ==
    ("$eq" :> eq) @@ ("$lt" :> lt) @@ ("$gt" :> gt) @@ ("$in" :> in)

\* a faulty loop body: the $lt test overwrites the result instead of joining it
ConditionResultDropped(result, entry, field, condition) ==
    LET r1 == IF Truthy(condition["$eq"])
              THEN result /\ StrictEq(Get(entry, field), condition["$eq"])
              ELSE result
        r2 == IF Truthy(condition["$lt"])
              THEN JsLess(Get(entry, field), condition["$lt"])
              ELSE r1
        r3 == IF Truthy(condition["$gt"])
              THEN r2 /\ JsGreater(Get(entry, field), condition["$gt"])
              ELSE r2
    IN  IF condition["$in"].has
        THEN r3 /\ Includes(condition["$in"].items, Get(entry, field))
        ELSE r3

\* the body of the for-in loop for one own field of the filter
ConditionStep(result, entry, field, condition) ==
    LET r1 == IF Truthy(condition["$eq"])
              THEN result /\ StrictEq(Get(entry, field), condition["$eq"])
              ELSE result
        r2 == IF Truthy(condition["$lt"])
              THEN r1 /\ JsLess(Get(entry, field), condition["$lt"])
              ELSE r1
        r3 == IF Truthy(condition["$gt"])
              THEN r2 /\ JsGreater(Get(entry, field), condition["$gt"])
              ELSE r2
    IN  IF condition["$in"].has
        THEN r3 /\ Includes(condition["$in"].items, Get(entry, field))
        ELSE r3

RECURSIVE ConditionLoop(_, _, _)
ConditionLoop(result, entry, filter) ==
    IF filter = <<>> THEN result
    ELSE ConditionLoop(ConditionStep(result, entry, filter[1][1], filter[1][2]),
                       entry, Tail(filter))

filterByConditionOrArray(entry, filter) == ConditionLoop(TRUE, entry, filter)

\* reduce(carry && filterByConditionOrArray(entry, condition), true)
RECURSIVE ReduceAnd(_, _, _)
ReduceAnd(carry, entry, conditions) ==
    IF conditions = <<>> THEN carry
    ELSE ReduceAnd(carry /\ filterByConditionOrArray(entry, conditions[1]),
                   entry, Tail(conditions))

\* reduce(carry || filterByConditionOrArray(entry, condition), false)
RECURSIVE ReduceOr(_, _, _)
ReduceOr(carry, entry, conditions) ==
    IF conditions = <<>> THEN carry
    ELSE ReduceOr(carry \/ filterByConditionOrArray(entry, conditions[1]),
                  entry, Tail(conditions))

\* a faulty variant: $or folded like $and
filterByMultiFilterOrAsAnd(entry, filter) ==
    IF HasOwnProperty(filter, "$and")
    THEN ReduceAnd(TRUE, entry, Prop(filter, "$and"))
    ELSE ReduceAnd(TRUE, entry, Prop(filter, "$or"))

\* an array is truthy even when empty, so filter.$and is truthy iff it is there
filterByMultiFilter(entry, filter) ==
    IF HasOwnProperty(filter, "$and")
    THEN ReduceAnd(TRUE, entry, Prop(filter, "$and"))
    ELSE ReduceOr(FALSE, entry, Prop(filter, "$or"))

----------------------------------------------------------------------------
(* Full-text search                                                        *)

RECURSIVE SplitOn(_, _, _)
\* String.prototype.split on one-character separators: every separator
\* ends a piece, so adjacent, leading and trailing separators give empty pieces
SplitOn(str, piece, separators) ==
    IF str = <<>> THEN <<piece>>
    ELSE IF str[1] \in separators
         THEN <<piece>> \o SplitOn(Tail(str), <<>>, separators)
         ELSE SplitOn(Tail(str), Append(piece, str[1]), separators)

\* $text.split(/\s/)
SplitWhiteSpace(str) == SplitOn(str, <<>>, {" "})

\* \w of a regular expression
IsWordChar(c) == c \in {"a", "b", "c", "A"}

\* canonicalisation under the i flag
Canonicalize(c) == IF c = "a" THEN "A" ELSE c

\* \b at position i of str (between str[i] and str[i+1])
WordBoundary(str, i) ==
    (i >= 1 /\ IsWordChar(str[i])) # (i < Len(str) /\ IsWordChar(str[i + 1]))

\* one pattern character against one input character: the word is pasted into
\* the pattern unescaped, so a dot is the regular expression's wildcard
PatternCharMatches(p, c) ==
    IF p = "." THEN TRUE ELSE Canonicalize(p) = Canonicalize(c)

\* new RegExp('\\b' + word + '\\b', 'i').test(str), for a word of letters and
\* dots: each pattern character consumes exactly one input character
RegExpTest(word, str) ==
    \E i \in 0..(Len(str) - Len(word)) :
        /\ WordBoundary(str, i)
        /\ \A k \in 1..Len(word) : PatternCharMatches(word[k], str[i + k])
        /\ WordBoundary(str, i + Len(word))

RECURSIVE TextFieldLoop(_, _, _, _)
\* for (let field of this.fullTextSearchFieldNames)
TextFieldLoop(result, entry, word, fields) ==
    IF fields = <<>> THEN result
    ELSE TextFieldLoop(
            IF Get(entry, fields[1]).t = "string"
            THEN result \/ RegExpTest(word, Get(entry, fields[1]).s)
            ELSE result,
            entry, word, Tail(fields))

RECURSIVE TextWordLoop(_, _, _)
\* for (let word of words)
TextWordLoop(result, entry, words) ==
    IF words = <<>> THEN result
    ELSE TextWordLoop(
            TextFieldLoop(result, entry, words[1], fullTextSearchFieldNames),
            entry, Tail(words))

filterByText(entry, filter) ==
    TextWordLoop(FALSE, entry, SplitWhiteSpace(Prop(filter, "$text")))

----------------------------------------------------------------------------
(* Sort and projection                                                     *)

RECURSIVE sort(_, _, _)
\* sortOptions is the rest of Object.keys(sortOptions) with each direction
sort(a, b, sortOptions) ==
    IF sortOptions = <<>> THEN 0
    ELSE LET field == sortOptions[1][1]
             direction == sortOptions[1][2]
         IN  IF JsGreater(Get(a, field), Get(b, field)) THEN direction
             ELSE IF JsLess(Get(a, field), Get(b, field)) THEN -direction
             ELSE sort(a, b, Tail(sortOptions))

RECURSIVE ProjectLoop(_, _, _)
\* newEntry = {...newEntry, [field]: entry[field]}
ProjectLoop(newEntry, entry, keys) ==
    IF keys = <<>> THEN newEntry
    ELSE ProjectLoop((keys[1] :> Get(entry, keys[1])) @@ newEntry,
                     entry, Tail(keys))

\* a faulty variant: the copy starts from the entry instead of {}
projectOntoEntry(entry, projectionOptions) ==
    ProjectLoop(entry, entry, ObjectKeys(projectionOptions))

project(entry, projectionOptions) ==
    ProjectLoop(EmptyObject, entry, ObjectKeys(projectionOptions))

----------------------------------------------------------------------------
(* The log file.  Its text is a sequence of chunks: a marker character, a  *)
(* line feed, the text of one serialized document, or a brace that opens a *)
(* document and is never closed.                                           *)

ExistenceCharacter == "E"

DocA == "{\"name\":\"a\",\"age\":2}"
DocB == "{\"name\":\"b\",\"age\":1}"
DocC == "{\"name\":\"c\",\"age\":3}"

\* the values of the document texts: records of the type T of the database
JSONDocuments ==
    (DocA :> (("name" :> Str(<<"a">>)) @@ ("age" :> Num(2)))) @@
    (DocB :> (("name" :> Str(<<"b">>)) @@ ("age" :> Num(1)))) @@
    (DocC :> (("name" :> Str(<<"c">>)) @@ ("age" :> Num(3))))

\* JSON.parse: the text must be exactly one document; the empty text, a
\* marker, an unclosed brace and two documents in a row are syntax errors
JSONParse(text) ==
    IF Len(text) = 1 /\ text[1] \in DOMAIN JSONDocuments
    THEN [ok |-> TRUE, value |-> JSONDocuments[text[1]]]
    ELSE [ok |-> FALSE, value |-> EmptyObject]

\* row.charAt(0): "" for the empty row; a document's text starts with a brace
CharAt0(row) ==
    IF row = <<>> THEN ""
    ELSE IF row[1] \in DOMAIN JSONDocuments THEN "{"
    ELSE row[1]

\* row.substr(1), of a row whose first chunk is one character
Substr1(row) == Tail(row)

\* rawData.split('\n')
SplitRows(rawData) == SplitOn(rawData, <<>>, {"\n"})

----------------------------------------------------------------------------
(* find                                                                    *)

\* a faulty variant: any marked row counts as existing
IsExistAnyMarker(row) == CharAt0(row) \in {"E", "X"}

\* row.charAt(0) === ExistenceCharacter
IsExist(row) == CharAt0(row) = ExistenceCharacter

\* a faulty variant: the entry goes to the front
Unshift(entries, entry) == <<entry>> \o entries

\* entries.push
Push(entries, entry) == Append(entries, entry)

\* a faulty variant: a row that does not parse is skipped
RECURSIVE DecodeRowsSkipMalformed(_, _)
DecodeRowsSkipMalformed(entries, rows) ==
    IF rows = <<>> THEN [ok |-> TRUE, entries |-> entries]
    ELSE IF ~IsExist(rows[1]) THEN DecodeRowsSkipMalformed(entries, Tail(rows))
    ELSE LET parsed == JSONParse(Substr1(rows[1]))
         IN  IF ~parsed.ok THEN DecodeRowsSkipMalformed(entries, Tail(rows))
             ELSE DecodeRowsSkipMalformed(Push(entries, parsed.value), Tail(rows))

\* the loop over the rows; ok = FALSE when JSON.parse throws
RECURSIVE DecodeRows(_, _)
DecodeRows(entries, rows) ==
    IF rows = <<>> THEN [ok |-> TRUE, entries |-> entries]
    ELSE IF ~IsExist(rows[1]) THEN DecodeRows(entries, Tail(rows))
    ELSE LET parsed == JSONParse(Substr1(rows[1]))
         IN  IF ~parsed.ok THEN [ok |-> FALSE, entries |-> <<>>]
             ELSE DecodeRows(Push(entries, parsed.value), Tail(rows))

isMultiFilter(filter) ==
    HasOwnProperty(filter, "$and") \/ HasOwnProperty(filter, "$or")

isTextFilter(filter) == HasOwnProperty(filter, "$text")

\* the predicate find hands to entries.filter
Matches(entry, query) ==
    IF isMultiFilter(query) THEN filterByMultiFilter(entry, query)
    ELSE IF isTextFilter(query) THEN filterByText(entry, query)
    ELSE filterByConditionOrArray(entry, query)

\* Array.prototype.filter
FilterEntries(entries, query) ==
    SelectSeq(entries, LAMBDA entry : Matches(entry, query))

RECURSIVE InsertSorted(_, _, _)
\* x goes after every element that does not sort after it
InsertSorted(sorted, x, sortOptions) ==
    IF sorted = <<>> THEN <<x>>
    ELSE IF sort(sorted[Len(sorted)], x, sortOptions) > 0
         THEN Append(InsertSorted(SubSeq(sorted, 1, Len(sorted) - 1), x, sortOptions),
                     sorted[Len(sorted)])
         ELSE Append(sorted, x)

RECURSIVE ArraySort(_, _)
\* Array.prototype.sort with this.sort as the comparator: a stable sort, here
\* by insertion.  The entries find sorts carry every sort field with one type
\* per field, so the comparator is a consistent one and the sorted order is
\* the same for every stable algorithm.
ArraySort(entries, sortOptions) ==
    IF entries = <<>> THEN <<>>
    ELSE InsertSorted(ArraySort(SubSeq(entries, 1, Len(entries) - 1), sortOptions),
                      entries[Len(entries)], sortOptions)

\* the options argument: given = FALSE when find is called without it
NoOptions == [given |-> FALSE, value |-> <<>>]
Options(value) == [given |-> TRUE, value |-> value]

MapProject(entries, projectionOptions) ==
    [i \in 1..Len(entries) |-> project(entries[i], projectionOptions)]

\* a faulty variant: projection first, then the sort
ProjectThenSort(entries, options) ==
    IF ~options.given THEN entries
    ELSE LET projected ==
                 IF HasOwnProperty(options.value, "projection")
                 THEN MapProject(entries, Prop(options.value, "projection"))
                 ELSE entries
         IN  IF HasOwnProperty(options.value, "sort")
             THEN ArraySort(projected, Prop(options.value, "sort"))
             ELSE projected

\* if (options) { sort; projection }
PostProcess(entries, options) ==
    IF ~options.given THEN entries
    ELSE LET sorted ==
                 IF HasOwnProperty(options.value, "sort")
                 THEN ArraySort(entries, Prop(options.value, "sort"))
                 ELSE entries
         IN  IF HasOwnProperty(options.value, "projection")
             THEN MapProject(sorted, Prop(options.value, "projection"))
             ELSE sorted

\* how a promise settles
Pending == [status |-> "pending", value |-> <<>>, reason |-> ""]
Fulfilled(value) == [status |-> "fulfilled", value |-> value, reason |-> ""]
Rejected(reason) == [status |-> "rejected", value |-> <<>>, reason |-> reason]

\* the callback of readFile(...).then
FindThen(rawData, query, options) ==
    LET decoded == DecodeRows(<<>>, SplitRows(rawData))
    IN  IF ~decoded.ok THEN Rejected("SyntaxError")
        ELSE Fulfilled(PostProcess(FilterEntries(decoded.entries, query), options))

----------------------------------------------------------------------------
(* The database instance, the log's writer and the callers of find         *)

LogFileName == "users.log"
SearchFields == <<"name">>

\* the callers are interchangeable: they are named in the order of their calls
CallOrder == <<"c1", "c2">>
Callers == {CallOrder[i] : i \in 1..Len(CallOrder)}
CalledBefore(c) ==
    {CallOrder[i] : i \in {j \in 1..Len(CallOrder) :
                              \E k \in (j + 1)..Len(CallOrder) : CallOrder[k] = c}}

\* the lines the external writer appends, each followed by a line feed
LogLines ==
    { <<"E", DocA>>, <<"E", DocB>>, <<"X", DocC>>, <<"X", "{">>, <<"E", "{">> }

RECURSIVE FileContent(_)
FileContent(lines) ==
    IF lines = <<>> THEN <<>>
    ELSE lines[1] \o <<"\n">> \o FileContent(Tail(lines))

\* {age: {$gt: 1}}
QueryAge == << <<"age", Cond(Undefined, Undefined, Num(1), NoArray)>> >>
\* {$or: [{name: {$eq: "c"}}, {age: {$lt: 3}}]}
QueryOr ==
    << <<"$or", << << <<"name", Cond(Str(<<"c">>), Undefined, Undefined, NoArray)>> >>,
                   << <<"age", Cond(Undefined, Num(3), Undefined, NoArray)>> >> >> >> >>
\* {$text: "b c"}
QueryText == << <<"$text", <<"b", " ", "c">> >> >>

\* the queries the callers make, one of each shape
Queries == { QueryAge, QueryOr, QueryText }

SortByAge == <<"sort", << <<"age", 1>> >> >>
ProjectName == <<"projection", << <<"name", 1>> >> >>

OptionChoices ==
    { NoOptions, Options(<<SortByAge>>), Options(<<ProjectName>>),
      Options(<<SortByAge, ProjectName>>) }

IdleCall ==
    [pc |-> "idle", query |-> <<>>, options |-> NoOptions, rawData |-> <<>>,
     outcome |-> Pending]

\* a direct call of a protected method that has not been made
NoArgs == [method |-> "none"]
NoRet == <<>>
Returned(value) == <<value>>

\* new Database(filename, fullTextSearchFieldNames)
Constructed(name, fields) ==
    /\ filename = name
    /\ fullTextSearchFieldNames = fields
    /\ log = <<>>
    /\ calls = [c \in Callers |-> IdleCall]

Init ==
    /\ Constructed(LogFileName, SearchFields)
    /\ args = NoArgs
    /\ ret = NoRet

\* the external writer appends a line to the log
AppendLine(line) ==
    /\ Len(log) < MaxLines
    /\ log' = Append(log, line)
    /\ UNCHANGED <<filename, fullTextSearchFieldNames, calls, args, ret>>

\* find(query, options) starts the read and returns the pending promise
Find(c, query, options) ==
    /\ calls[c].pc = "idle"
    /\ \A d \in CalledBefore(c) : calls[d].pc # "idle"
    /\ calls' = [calls EXCEPT ![c] =
                    [pc |-> "reading", query |-> query, options |-> options,
                     rawData |-> <<>>, outcome |-> Pending]]
    /\ UNCHANGED <<filename, fullTextSearchFieldNames, log, args, ret>>

\* a bug that keeps the result on the instance: every settled call sees it
ReadDoneSharedResult(c) ==
    /\ calls[c].pc = "reading"
    /\ LET rawData == FileContent(log)
           outcome == FindThen(rawData, calls[c].query, calls[c].options)
       IN  calls' = [d \in Callers |->
                        IF d = c
                        THEN [calls[c] EXCEPT !.pc = "done", !.rawData = rawData,
                                              !.outcome = outcome]
                        ELSE IF calls[d].pc = "done"
                             THEN [calls[d] EXCEPT !.outcome = outcome]
                             ELSE calls[d]]
    /\ UNCHANGED <<filename, fullTextSearchFieldNames, log, args, ret>>

\* the read of this.filename completes and the callback runs to its end
ReadDone(c) ==
    /\ calls[c].pc = "reading"
    /\ LET rawData == FileContent(log)
       IN  calls' = [calls EXCEPT ![c] =
                        [@ EXCEPT !.pc = "done", !.rawData = rawData,
                                  !.outcome = FindThen(rawData, calls[c].query,
                                                       calls[c].options)]]
    /\ UNCHANGED <<filename, fullTextSearchFieldNames, log, args, ret>>

\* the read fails: the promise is rejected and the callback never runs
ReadError(c) ==
    /\ calls[c].pc = "reading"
    /\ calls' = [calls EXCEPT ![c] =
                    [@ EXCEPT !.pc = "done", !.outcome = Rejected("EIO")]]
    /\ UNCHANGED <<filename, fullTextSearchFieldNames, log, args, ret>>

Next ==
    \/ \E line \in LogLines : AppendLine(line)
    \/ \E c \in Callers, query \in Queries, options \in OptionChoices :
          Find(c, query, options)
    \/ \E c \in Callers : ReadDone(c)
    \/ \E c \in Callers : ReadError(c)

Spec == Init /\ [][Next]_vars

----------------------------------------------------------------------------
(* Properties of find                                                      *)

\* the calls whose callback has run (the read did not fail)
Settled == {c \in Callers : calls[c].pc = "done" /\ calls[c].outcome.reason # "EIO"}
Returning == {c \in Settled : calls[c].outcome.status = "fulfilled"}

\* the numbers of the lines whose first character is 'E'
VisibleLines(rows) == {i \in 1..Len(rows) : CharAt0(rows[i]) = "E"}

\* the record a line holds after its marker
LineRecord(row) == JSONParse(Tail(row)).value
LineIsWellFormed(row) == JSONParse(Tail(row)).ok

\* the records of the visible lines that match the query, in line order
MatchingRecords(rows, query) ==
    LET matching == SelectSeq(rows, LAMBDA row : /\ CharAt0(row) = "E"
                                                 /\ Matches(LineRecord(row), query))
    IN  [k \in 1..Len(matching) |-> LineRecord(matching[k])]

\* C1: find called without options returns exactly the records of the lines
\* that start with 'E' and match the filter, one record per such line, in the
\* order of their lines in the log.
C1_FindWithoutOptions ==
    \A c \in Returning :
        ~calls[c].options.given =>
            calls[c].outcome.value =
                MatchingRecords(SplitRows(calls[c].rawData), calls[c].query)

\* a call without options has returned two different records, and a call
\* without options has returned one record of a log of two lines
C1_Witness ==
    /\ \E c \in Returning :
          /\ ~calls[c].options.given
          /\ Len(calls[c].outcome.value) = 2
          /\ calls[c].outcome.value[1] # calls[c].outcome.value[2]
    /\ \E d \in Returning :
          /\ ~calls[d].options.given
          /\ Len(calls[d].outcome.value) = 1
          /\ Len(SplitRows(calls[d].rawData)) > 2

\* what a returned record shows of a log record under the call's options
Shown(record, options) ==
    IF options.given /\ HasOwnProperty(options.value, "projection")
    THEN project(record, Prop(options.value, "projection"))
    ELSE record

\* C2: whatever the filter and the options, every returned record comes from
\* a line of its own whose first character is 'E'; a line with another first
\* character, or a blank line, gives no record.
C2_OnlyVisibleLines ==
    \A c \in Returning :
        LET result == calls[c].outcome.value
            rows == SplitRows(calls[c].rawData)
            visible == VisibleLines(rows)
        IN  result # <<>> =>
                \E origin \in [1..Len(result) -> visible] :
                    /\ \A j, k \in 1..Len(result) : origin[j] = origin[k] => j = k
                    /\ \A k \in 1..Len(result) :
                          result[k] = Shown(LineRecord(rows[origin[k]]), calls[c].options)

\* a call has returned a record although its log held a well-formed line with
\* another marker that matches its filter
C2_Witness ==
    \E c \in Returning :
        /\ Len(calls[c].outcome.value) > 0
        /\ \E i \in 1..Len(SplitRows(calls[c].rawData)) :
              LET row == SplitRows(calls[c].rawData)[i]
              IN  /\ CharAt0(row) = "X"
                  /\ LineIsWellFormed(row)
                  /\ Matches(LineRecord(row), calls[c].query)

\* C8: find fails as a whole, returning no record, exactly when some line
\* that starts with 'E' holds a payload that is not well-formed, whatever the
\* filter and the options and whatever precedes that line; a malformed payload
\* on a line with another marker never makes it fail.
C8_MalformedVisibleLineFails ==
    \A c \in Settled :
        LET rows == SplitRows(calls[c].rawData)
        IN  (\E i \in VisibleLines(rows) : ~LineIsWellFormed(rows[i]))
            <=> /\ calls[c].outcome.status = "rejected"
                /\ calls[c].outcome.value = <<>>

\* a call has failed on a malformed visible line that follows a well-formed
\* line matching its filter
C8_Witness ==
    \E c \in Settled :
        LET rows == SplitRows(calls[c].rawData)
        IN  /\ calls[c].outcome.status = "rejected"
            /\ \E i, j \in VisibleLines(rows) :
                  /\ i < j
                  /\ LineIsWellFormed(rows[i])
                  /\ Matches(LineRecord(rows[i]), calls[c].query)
                  /\ ~LineIsWellFormed(rows[j])

\* a call has returned records from a log with a malformed payload on a line
\* with another marker
C8_InvisibleMalformedReached ==
    \E d \in Returning :
        LET rows == SplitRows(calls[d].rawData)
        IN  /\ calls[d].outcome.value # <<>>
            /\ \E i \in 1..Len(rows) :
                  CharAt0(rows[i]) = "X" /\ ~LineIsWellFormed(rows[i])

\* C9: however the calls interleave, the instance keeps the file name and the
\* search fields it was constructed with, a call that has not settled holds no
\* result, and the outcome of a settled call is the outcome of running the
\* callback alone on the content that call read.
C9_CallsDoNotInterfere ==
    /\ filename = LogFileName
    /\ fullTextSearchFieldNames = SearchFields
    /\ \A c \in Callers :
          IF c \in Settled
          THEN calls[c].outcome =
                   FindThen(calls[c].rawData, calls[c].query, calls[c].options)
          ELSE calls[c].pc # "done" => calls[c].outcome = Pending

\* two calls have settled on different contents of the log with different
\* outcomes
C9_Witness ==
    \E c, d \in Returning :
        /\ calls[c].rawData # calls[d].rawData
        /\ calls[c].outcome # calls[d].outcome
        /\ calls[c].outcome.value # <<>>
        /\ calls[d].outcome.value # <<>>

\* the orders a stable sort with the comparator may give the records
SortedOrders(records, sortOptions) ==
    {order \in [1..Len(records) -> 1..Len(records)] :
        /\ \A j, k \in 1..Len(records) : order[j] = order[k] => j = k
        /\ \A j, k \in 1..Len(records) :
              j < k =>
                  LET byComparator == sort(records[order[j]], records[order[k]], sortOptions)
                  IN  byComparator < 0 \/ (byComparator = 0 /\ order[j] < order[k])}

\* C10: with a sort and a projection, the result is the projection, record by
\* record, of the filtered records in sorted order: it is as long as the
\* filtered sequence and a sort field the projection drops still orders it.
C10_SortBeforeProjection ==
    \A c \in Returning :
        LET options == calls[c].options
        IN  (/\ options.given
             /\ HasOwnProperty(options.value, "sort")
             /\ HasOwnProperty(options.value, "projection")) =>
                LET filtered == MatchingRecords(SplitRows(calls[c].rawData), calls[c].query)
                    result == calls[c].outcome.value
                IN  /\ Len(result) = Len(filtered)
                    /\ \E order \in SortedOrders(filtered, Prop(options.value, "sort")) :
                          \A k \in 1..Len(result) :
                              result[k] = project(filtered[order[k]],
                                                  Prop(options.value, "projection"))

\* a call with a sort on age and a projection without age has returned two
\* records in another order than their lines
C10_Witness ==
    \E c \in Returning :
        /\ calls[c].options = Options(<<SortByAge, ProjectName>>)
        /\ Len(calls[c].outcome.value) = 2
        /\ LET filtered == MatchingRecords(SplitRows(calls[c].rawData), calls[c].query)
           IN  /\ Len(filtered) = 2
               /\ calls[c].outcome.value[1] = project(filtered[2], <<<<"name", 1>>>>)
               /\ calls[c].outcome.value[2] = project(filtered[1], <<<<"name", 1>>>>)
               /\ calls[c].outcome.value[1] # calls[c].outcome.value[2]

----------------------------------------------------------------------------
(* Direct calls of the protected methods, one call per behaviour, on        *)
(* records of the type {name?: string, age?: number}                        *)

SeqsUpTo(S, n) == UNION {[1..k -> S] : k \in 0..n}

\* the record with the given fields; Undefined leaves the field out
MakeEntry(name, age) ==
    (IF name = Undefined THEN EmptyObject ELSE "name" :> name) @@
    (IF age = Undefined THEN EmptyObject ELSE "age" :> age)

TestFields == {"name", "age"}

TestEntries ==
    {MakeEntry(name, age) :
        name \in {Undefined, Str(<<>>), Str(<<"a">>), Str(<<"b">>)},
        age \in {Undefined, Num(0), Num(1), Num(2)}}

\* the operands of a field's condition: one falsy and one truthy value
FieldOperands(field) ==
    IF field = "name" THEN {Str(<<>>), Str(<<"a">>)} ELSE {Num(0), Num(1)}

NumOps(condition) ==
    Cardinality({op \in {"$eq", "$lt", "$gt"} : condition[op] # Undefined})
    + (IF condition["$in"].has THEN 1 ELSE 0)

Conditions(field) ==
    {condition \in
        {Cond(eq, lt, gt, in) :
            eq \in FieldOperands(field) \cup {Undefined},
            lt \in FieldOperands(field) \cup {Undefined},
            gt \in FieldOperands(field) \cup {Undefined},
            in \in {NoArray} \cup
                   {Array(items) : items \in SeqsUpTo(FieldOperands(field), MaxIn)}} :
        NumOps(condition) <= MaxOps}

\* the filters on no field, on one field and on both fields in either order
ConditionalFilters ==
    {<<>>}
    \cup UNION {{<< <<field, condition>> >> : condition \in Conditions(field)} :
                  field \in TestFields}
    \cup UNION {{filter \in {<< <<pair[1], first>>, <<pair[2], second>> >> :
                                first \in Conditions(pair[1]),
                                second \in Conditions(pair[2])} :
                     NumOps(filter[1][2]) + NumOps(filter[2][2]) <= MaxOps} :
                  pair \in {<<"name", "age">>, <<"age", "name">>}}

InitCond ==
    /\ Constructed(LogFileName, SearchFields)
    /\ \E entry \in TestEntries, filter \in ConditionalFilters :
          args = [method |-> "filterByConditionOrArray", entry |-> entry, filter |-> filter]
    /\ ret = NoRet

CallFilterByConditionOrArray ==
    /\ args.method = "filterByConditionOrArray"
    /\ ret = NoRet
    /\ ret' = Returned(filterByConditionOrArray(args.entry, args.filter))
    /\ UNCHANGED <<filename, fullTextSearchFieldNames, log, calls, args>>

SpecCond == InitCond /\ [][CallFilterByConditionOrArray]_vars

\* the filters the $and and $or sequences are made of:
\* {}, {age: {$gt: 1}}, {name: {$eq: "a"}}, {age: {$lt: 1}}
SubFilters ==
    { <<>>,
      << <<"age", Cond(Undefined, Undefined, Num(1), NoArray)>> >>,
      << <<"name", Cond(Str(<<"a">>), Undefined, Undefined, NoArray)>> >>,
      << <<"age", Cond(Undefined, Num(1), Undefined, NoArray)>> >> }

\* {$and}, {$or}, and both keys in either order
MultiFilters ==
    {<< <<key, conditions>> >> :
        key \in {"$and", "$or"}, conditions \in SeqsUpTo(SubFilters, MaxSub)}
    \cup {<< <<"$and", and>>, <<"$or", or>> >> :
             and \in SeqsUpTo(SubFilters, 1), or \in SeqsUpTo(SubFilters, 1)}
    \cup {<< <<"$or", or>>, <<"$and", and>> >> :
             and \in SeqsUpTo(SubFilters, 1), or \in SeqsUpTo(SubFilters, 1)}

InitMulti ==
    /\ Constructed(LogFileName, SearchFields)
    /\ \E entry \in TestEntries, filter \in MultiFilters :
          args = [method |-> "filterByMultiFilter", entry |-> entry, filter |-> filter]
    /\ ret = NoRet

CallFilterByMultiFilter ==
    /\ args.method = "filterByMultiFilter"
    /\ ret = NoRet
    /\ ret' = Returned(filterByMultiFilter(args.entry, args.filter))
    /\ UNCHANGED <<filename, fullTextSearchFieldNames, log, calls, args>>

SpecMulti == InitMulti /\ [][CallFilterByMultiFilter]_vars

\* the strings of the searched fields and of the $text queries
FieldTexts == SeqsUpTo({"a", "A", "b", " "}, MaxText)
QueryTexts == SeqsUpTo({"a", "b", " ", "."}, MaxText)

TextEntries ==
    {MakeEntry(Str(name), age) :
        name \in FieldTexts, age \in {Undefined, Num(1), Str(<<"b">>)}}

InitText ==
    /\ \E fields \in {<<>>, <<"name">>, <<"age">>, <<"name", "age">>} :
          Constructed(LogFileName, fields)
    /\ \E entry \in TextEntries, text \in QueryTexts :
          args = [method |-> "filterByText", entry |-> entry,
                  filter |-> << <<"$text", text>> >>]
    /\ ret = NoRet

CallFilterByText ==
    /\ args.method = "filterByText"
    /\ ret = NoRet
    /\ ret' = Returned(filterByText(args.entry, args.filter))
    /\ UNCHANGED <<filename, fullTextSearchFieldNames, log, calls, args>>

SpecText == InitText /\ [][CallFilterByText]_vars

\* the sort options on no field, one field and both fields in either order
SortSpecs ==
    {<<>>}
    \cup {<< <<field, direction>> >> : field \in TestFields, direction \in {1, -1}}
    \cup {<< <<pair[1], first>>, <<pair[2], second>> >> :
             pair \in {<<"name", "age">>, <<"age", "name">>},
             first \in {1, -1}, second \in {1, -1}}

InitSort ==
    /\ Constructed(LogFileName, SearchFields)
    /\ \E a \in TestEntries, b \in TestEntries, sortOptions \in SortSpecs :
          args = [method |-> "sort", a |-> a, b |-> b, sortOptions |-> sortOptions]
    /\ ret = NoRet

CallSort ==
    /\ args.method = "sort"
    /\ ret = NoRet
    /\ ret' = Returned(sort(args.a, args.b, args.sortOptions))
    /\ UNCHANGED <<filename, fullTextSearchFieldNames, log, calls, args>>

SpecSort == InitSort /\ [][CallSort]_vars

\* the projections onto no field, one field and both fields in either order
ProjectionSpecs ==
    { <<>>, << <<"name", 1>> >>, << <<"age", 1>> >>,
      << <<"name", 1>>, <<"age", 1>> >>, << <<"age", 1>>, <<"name", 1>> >> }

InitProject ==
    /\ Constructed(LogFileName, SearchFields)
    /\ \E entry \in TestEntries, projectionOptions \in ProjectionSpecs :
          args = [method |-> "project", entry |-> entry,
                  projectionOptions |-> projectionOptions]
    /\ ret = NoRet

CallProject ==
    /\ args.method = "project"
    /\ ret = NoRet
    /\ ret' = Returned(project(args.entry, args.projectionOptions))
    /\ UNCHANGED <<filename, fullTextSearchFieldNames, log, calls, args>>

SpecProject == InitProject /\ [][CallProject]_vars

----------------------------------------------------------------------------
(* Properties of the protected methods                                     *)

\* the comparison an operator stands for
ComparisonHolds(op, value, operand) ==
    CASE op = "$eq" -> value = operand
      [] op = "$lt" -> JsLess(value, operand)
      [] op = "$gt" -> JsGreater(value, operand)

\* a filter that is one $eq clause on one field
IsSingleEq(filter) ==
    /\ Len(filter) = 1
    /\ filter[1][2]["$lt"] = Undefined
    /\ filter[1][2]["$gt"] = Undefined
    /\ ~filter[1][2]["$in"].has

\* C3: filterByConditionOrArray is true iff, on every field of the filter,
\* every operator with a truthy operand holds of the record's value ($eq
\* equal, $lt less, $gt greater, $in a member of the operand); an operator
\* with a falsy operand has no effect, so one $eq clause matches iff the
\* value equals the operand, or the operand is falsy.
C3_ConditionalFilter ==
    ret # NoRet =>
        /\ ret[1] =
              \A i \in 1..Len(args.filter) :
                  LET value == Get(args.entry, args.filter[i][1])
                      condition == args.filter[i][2]
                  IN  /\ \A op \in {"$eq", "$lt", "$gt"} :
                            Truthy(condition[op]) =>
                                ComparisonHolds(op, value, condition[op])
                      /\ condition["$in"].has =>
                            \E k \in 1..Len(condition["$in"].items) :
                                condition["$in"].items[k] = value
        /\ IsSingleEq(args.filter) =>
              LET value == Get(args.entry, args.filter[1][1])
                  operand == args.filter[1][2]["$eq"]
              IN  ret[1] = (IF operand \in {Undefined, Num(0), Str(<<>>)}
                               THEN TRUE
                               ELSE value = operand)

\* {age: {$eq: 0}} has matched a record whose age is 1
C3_Witness ==
    /\ ret # NoRet
    /\ ret[1]
    /\ args.filter = << <<"age", Cond(Num(0), Undefined, Undefined, NoArray)>> >>
    /\ Get(args.entry, "age") = Num(1)

\* a filter on both fields has rejected a record that its second condition
\* accepts
C3_ConjunctionReached ==
    /\ ret # NoRet
    /\ ~ret[1]
    /\ Len(args.filter) = 2
    /\ filterByConditionOrArray(args.entry, <<args.filter[2]>>)
    /\ NumOps(args.filter[1][2]) = 1
    /\ NumOps(args.filter[2][2]) = 1

\* C4: with $and, filterByMultiFilter is true iff every filter of the $and
\* sequence matches (an empty $and matches every record); otherwise it is true
\* iff some filter of the $or sequence matches (an empty $or matches none).
C4_MultiFilter ==
    ret # NoRet =>
        IF HasOwnProperty(args.filter, "$and")
        THEN /\ ret[1] =
                   \A k \in 1..Len(Prop(args.filter, "$and")) :
                       filterByConditionOrArray(args.entry, Prop(args.filter, "$and")[k])
             /\ Prop(args.filter, "$and") = <<>> => ret[1]
        ELSE /\ ret[1] =
                   \E k \in 1..Len(Prop(args.filter, "$or")) :
                       filterByConditionOrArray(args.entry, Prop(args.filter, "$or")[k])
             /\ Prop(args.filter, "$or") = <<>> => ~ret[1]

\* an $or of two filters, one of which the record fails, has matched
C4_Witness ==
    /\ ret # NoRet
    /\ ret[1]
    /\ ~HasOwnProperty(args.filter, "$and")
    /\ Len(Prop(args.filter, "$or")) = 2
    /\ ~filterByConditionOrArray(args.entry, Prop(args.filter, "$or")[1])

\* the word occurs in the string between two word boundaries, letter for
\* letter up to case
OccursAsWholeWord(word, str) ==
    \E i \in 0..(Len(str) - Len(word)) :
        /\ WordBoundary(str, i)
        /\ \A k \in 1..Len(word) : Canonicalize(word[k]) = Canonicalize(str[i + k])
        /\ WordBoundary(str, i + Len(word))

\* C5: filterByText is true iff some word of the query, split on white space,
\* occurs as a whole word, up to case, in some search field whose value is a
\* string.
C5_TextFilter ==
    ret # NoRet =>
        ret[1] =
            \E w \in 1..Len(SplitWhiteSpace(Prop(args.filter, "$text"))),
               f \in 1..Len(fullTextSearchFieldNames) :
                /\ Get(args.entry, fullTextSearchFieldNames[f]).t = "string"
                /\ OccursAsWholeWord(SplitWhiteSpace(Prop(args.filter, "$text"))[w],
                                     Get(args.entry, fullTextSearchFieldNames[f]).s)

\* the claim of C5 holds of the queries without a dot: the divergence is the
\* unescaped pattern alone
C5_HoldsWithoutMetacharacters ==
    (\A k \in 1..Len(Prop(args.filter, "$text")) : Prop(args.filter, "$text")[k] # ".")
    => C5_TextFilter

\* the sort fields on which the two records differ, by their place in the
\* sort options
DifferingFields(a, b, sortOptions) ==
    {i \in 1..Len(sortOptions) : Get(a, sortOptions[i][1]) # Get(b, sortOptions[i][1])}

Min(S) == CHOOSE x \in S : \A y \in S : x <= y

\* C6: sort returns, for the first sort field on which a and b differ, the
\* direction if a's value is greater and its negation otherwise; it returns 0
\* only if a and b differ on no sort field.
C6_Comparator ==
    ret # NoRet =>
        LET differing == DifferingFields(args.a, args.b, args.sortOptions)
        IN  IF differing = {} THEN ret[1] = 0
            ELSE LET field == args.sortOptions[Min(differing)][1]
                     direction == args.sortOptions[Min(differing)][2]
                 IN  ret[1] = IF JsGreater(Get(args.a, field), Get(args.b, field))
                                 THEN direction
                                 ELSE -direction

\* the claim of C6 holds of the records that have every sort field: the
\* divergence is the pairs of values that differ and are not ordered
C6_HoldsOnOrderedValues ==
    (\A i \in 1..Len(args.sortOptions) :
        /\ args.sortOptions[i][1] \in DOMAIN args.a
        /\ args.sortOptions[i][1] \in DOMAIN args.b)
    => C6_Comparator

\* C7: project returns a new record with exactly the fields of the
\* projection, each with the record's value of it, and leaves the record as
\* it was.
C7_Projection ==
    [][(ret = NoRet /\ ret' # NoRet) =>
          /\ args' = args
          /\ DOMAIN ret'[1] = {ObjectKeys(args.projectionOptions)[i] :
                                     i \in 1..Len(args.projectionOptions)}
          /\ \A field \in DOMAIN ret'[1] : ret'[1][field] = Get(args.entry, field)
          /\ \A field \in DOMAIN args.entry :
                (\A i \in 1..Len(args.projectionOptions) :
                    args.projectionOptions[i][1] # field)
                => field \notin DOMAIN ret'[1]]_vars

\* {name: 1} of a record with a name and an age has given the name alone
C7_Witness ==
    /\ ret # NoRet
    /\ args.projectionOptions = << <<"name", 1>> >>
    /\ args.entry = MakeEntry(Str(<<"a">>), Num(1))
    /\ ret[1] = MakeEntry(Str(<<"a">>), Undefined)

====
